---- MODULE Spec2Model ----
(***************************************************************************)
(* Model of randlov1998/environment.py: the bicycle Environment of         *)
(* Randlov & Alstrom (1998) with the goal angle of Lagoudakis (2002).      *)
(*                                                                         *)
(* Numbers.  The program computes in IEEE double precision.  The model     *)
(* computes in signed fixed point with Scale units per 1.0 (0.0001 rad,    *)
(* 0.0001 m, ...), rounding every product and quotient to the nearest      *)
(* unit, with the IEEE values and rules the program relies on: results     *)
(* beyond the largest finite magnitude overflow to +-inf, x/0 is +-inf,    *)
(* inf - inf, 0 * inf, inf / inf and 0/0 are nan, nan propagates through   *)
(* arithmetic, and every comparison with nan is false.  sin, cos, arctan,  *)
(* arcsin and sqrt are computed (polynomials after range reduction,        *)
(* integer square root), not assumed.  Signed zeros are not told apart.    *)
(***************************************************************************)
EXTENDS Integers, Sequences, FiniteSets, TLC

\* ------------------------------------------------------------------------
\* Evaluation order
\* ------------------------------------------------------------------------

\* F applied to the value of e (of e1 and e2): the operand is evaluated
\* once, as an assignment to a local does, however often F reads it.
Let1(e, F(_)) == CHOOSE res \in {F(x) : x \in {e}} : TRUE

Let2(e1, e2, F(_, _)) == CHOOSE res \in {F(x, y) : x \in {e1}, y \in {e2}} : TRUE

\* ------------------------------------------------------------------------
\* Fixed-point arithmetic
\* ------------------------------------------------------------------------

\* Units per 1.0.
Scale == 10^4

\* The largest finite magnitude.  The range of a double (about 1.8e308) is
\* scaled down with the resolution: a result beyond MaxFinite overflows to
\* an infinity, as a double's does beyond its own range.
MaxFinite == 10^9

\* inf; -inf is -Inf.
Inf == 2^30

\* The single non-numeric value (numpy's nan).
NaN == 2^30 + (2^30 - 1)

IsNaN(x) == x = NaN

IsInf(x) == x = Inf \/ x = -Inf

IsFinite(x) == -MaxFinite <= x /\ x <= MaxFinite

\* Largest divisor the long division below handles without rescaling.
DivMax == NaN \div 10

Abs(x) == IF x < 0 THEN -x ELSE x

Max(a, b) == IF a >= b THEN a ELSE b

Sgn(x) == IF x > 0 THEN 1 ELSE IF x < 0 THEN -1 ELSE 0

\* An exact result brought into the range: overflow gives an infinity.
Overflow(x) == IF x > MaxFinite THEN Inf ELSE IF x < -MaxFinite THEN -Inf ELSE x

\* a / b for integers a >= 0, b > 0, rounded to nearest.
RDiv(a, b) == (a + b \div 2) \div b

\* a * b in fixed point for finite a, b >= 0 whose product is within
\* 2 * MaxFinite, split so that no partial product leaves 32 bits.
MulAbs(a, b) ==
    Let2(a, b, LAMBDA x, y :
        (x \div Scale) * (y \div Scale) * Scale + (x \div Scale) * (y % Scale)
        + (x % Scale) * (y \div Scale) + RDiv((x % Scale) * (y % Scale), Scale))

\* a * b for finite a, b >= 0: inf when the product leaves the range.
MulFinite(a, b) ==
    IF a >= Scale /\ b >= Scale /\ a \div Scale > (MaxFinite \div Scale) \div (b \div Scale)
    THEN Inf
    ELSE Overflow(MulAbs(a, b))

\* Long division: Scale * a / b for a >= 0, 0 < b <= DivMax, digit by digit.
RECURSIVE LongDiv(_, _, _, _)
LongDiv(q, rem, b, k) ==
    IF k = 0
    THEN q + (IF 2 * rem >= b THEN 1 ELSE 0)
    ELSE LongDiv(q * 10 + (rem * 10) \div b, (rem * 10) % b, b, k - 1)

\* a / b in fixed point for finite a >= 0, b > 0 whose quotient is within
\* MaxFinite.
RECURSIVE DivAbs(_, _)
DivAbs(a, b) ==
    IF b > DivMax
    THEN DivAbs(a \div 10, b \div 10)
    ELSE LongDiv(a \div b, a % b, b, 4)

\* a / b for finite a >= 0, b > 0: inf when the quotient leaves the range.
DivFinite(a, b) ==
    IF a \div b > MaxFinite \div Scale THEN Inf ELSE Overflow(DivAbs(a, b))

\* numpy.sign: -1.0, 0.0 or 1.0; nan for nan.
sign(a) == Let1(a, LAMBDA x : IF IsNaN(x) THEN NaN ELSE Sgn(x) * Scale)

\* The float operations +, -, *, / and unary minus on numpy floats.
\* inf - inf, 0 * inf, inf / inf and 0 / 0 are nan; x / 0 is +-inf.
Neg(a) == Let1(a, LAMBDA x : IF IsNaN(x) THEN NaN ELSE -x)

Add(a, b) ==
    Let2(a, b, LAMBDA x, y :
        IF IsNaN(x) \/ IsNaN(y) THEN NaN
        ELSE IF IsInf(x) THEN (IF y = -x THEN NaN ELSE x)
        ELSE IF IsInf(y) THEN y
        ELSE Overflow(x + y))

Sub(a, b) == Add(a, Neg(b))

Mul(a, b) ==
    Let2(a, b, LAMBDA x, y :
        IF IsNaN(x) \/ IsNaN(y) THEN NaN
        ELSE IF IsInf(x) \/ IsInf(y)
             THEN (IF x = 0 \/ y = 0 THEN NaN ELSE Sgn(x) * Sgn(y) * Inf)
        ELSE Sgn(x) * Sgn(y) * MulFinite(Abs(x), Abs(y)))

Div(a, b) ==
    Let2(a, b, LAMBDA x, y :
        IF IsNaN(x) \/ IsNaN(y) THEN NaN
        ELSE IF IsInf(x) THEN (IF IsInf(y) THEN NaN
                               ELSE IF y < 0 THEN -x ELSE x)
        ELSE IF IsInf(y) THEN 0
        ELSE IF y = 0 THEN (IF x = 0 THEN NaN ELSE Sgn(x) * Inf)
        ELSE Sgn(x) * Sgn(y) * DivFinite(Abs(x), Abs(y)))

\* numpy.abs
fabs(a) == Let1(a, LAMBDA x : IF IsNaN(x) THEN NaN ELSE Abs(x))

\* The float comparisons: false whenever an operand is nan.
Lt(a, b) == Let2(a, b, LAMBDA x, y : ~IsNaN(x) /\ ~IsNaN(y) /\ x < y)

Gt(a, b) == Let2(a, b, LAMBDA x, y : ~IsNaN(x) /\ ~IsNaN(y) /\ x > y)

Eq(a, b) == Let2(a, b, LAMBDA x, y : ~IsNaN(x) /\ ~IsNaN(y) /\ x = y)

\* Integer square root (floor), by bisection: lo^2 <= n < hi^2.
RECURSIVE SqrtBisect(_, _, _)
SqrtBisect(n, lo, hi) ==
    IF hi - lo <= 1 THEN lo
    ELSE IF ((lo + hi) \div 2) * ((lo + hi) \div 2) <= n
         THEN SqrtBisect(n, (lo + hi) \div 2, hi)
         ELSE SqrtBisect(n, lo, (lo + hi) \div 2)

\* Nearest integer to the square root of n >= 0.
Isqrt(n) ==
    Let1(SqrtBisect(n, 0, 46341), LAMBDA lo :
        IF n - lo * lo > lo THEN lo + 1 ELSE lo)

\* sqrt(a**2 + b**2): the squares are taken after scaling both operands
\* down by k, far enough for their sum to fit.
HypotScaled(x, y, k) == k * Isqrt((x \div k) * (x \div k) + (y \div k) * (y \div k))

Hypot(a, b) ==
    Let2(a, b, LAMBDA x, y :
        IF IsNaN(x) \/ IsNaN(y) THEN NaN
        ELSE IF IsInf(x) \/ IsInf(y) THEN Inf
        ELSE Overflow(HypotScaled(Abs(x), Abs(y),
                                  Max(Abs(x), Abs(y)) \div 30000 + 1)))

\* ------------------------------------------------------------------------
\* Elementary functions
\* ------------------------------------------------------------------------

\* numpy.pi
Pi == 31416

HalfPi == Pi \div 2

QuarterPi == Pi \div 4

TwoPi == 2 * Pi

\* sin on [0, pi/4]: x (1 - x^2/6 (1 - x^2/20 (1 - x^2/42))), x2 = x^2.
SinHorner(x, x2) ==
    MulAbs(x, Scale - RDiv(MulAbs(x2, Scale - MulAbs(x2, Scale - x2 \div 42) \div 20), 6))

SinPoly(x) == SinHorner(x, MulAbs(x, x))

\* cos on [0, pi/4]: 1 - x^2/2 (1 - x^2/12 (1 - x^2/30)), x2 = x^2.
CosHorner(x2) ==
    Scale - RDiv(MulAbs(x2, Scale - MulAbs(x2, Scale - x2 \div 30) \div 12), 2)

CosPoly(x) == Let1(MulAbs(x, x), CosHorner)

\* sin and cos on the first quadrant [0, pi/2].
SinQ(x) == IF x <= QuarterPi THEN SinPoly(x) ELSE CosPoly(HalfPi - x)

CosQ(x) == IF x <= QuarterPi THEN CosPoly(x) ELSE SinPoly(HalfPi - x)

\* sin and cos of an angle already reduced to [0, 2 pi).
SinReduced(x) ==
    IF x <= HalfPi THEN SinQ(x)
    ELSE IF x <= Pi THEN SinQ(Pi - x)
    ELSE IF x <= Pi + HalfPi THEN -SinQ(x - Pi)
    ELSE -SinQ(TwoPi - x)

CosReduced(x) ==
    IF x <= HalfPi THEN CosQ(x)
    ELSE IF x <= Pi THEN -CosQ(Pi - x)
    ELSE IF x <= Pi + HalfPi THEN -CosQ(x - Pi)
    ELSE CosQ(TwoPi - x)

\* numpy.sin: nan for nan and for +-inf.
sin(a) ==
    Let1(a, LAMBDA x :
        IF IsNaN(x) \/ IsInf(x) THEN NaN
        ELSE Sgn(x) * Let1(Abs(x) % TwoPi, SinReduced))

\* numpy.cos: nan for nan and for +-inf.
cos(a) ==
    Let1(a, LAMBDA x :
        IF IsNaN(x) \/ IsInf(x) THEN NaN ELSE Let1(Abs(x) % TwoPi, CosReduced))

\* numpy.tan, away from cos = 0.
tan(a) == Let1(a, LAMBDA x : Div(sin(x), cos(x)))

\* arctan on [0, tan(pi/8)]:
\* z (1 - z^2 (1/3 - z^2 (1/5 - z^2 (1/7 - z^2/9)))), z2 = z^2.
ArctanHorner(z, z2) ==
    MulAbs(z, Scale - MulAbs(z2, RDiv(Scale, 3)
                  - MulAbs(z2, Scale \div 5 - MulAbs(z2, Scale \div 7 - z2 \div 9))))

ArctanPoly(z) == Let1(z, LAMBDA x : Let1(MulAbs(x, x), LAMBDA x2 : ArctanHorner(x, x2)))

\* arctan on [0, 1]: above tan(pi/8), the root of z^2 + 2z = 1,
\* pi/4 - arctan((1 - z) / (1 + z)).
ArctanUnit(z) ==
    Let1(z, LAMBDA x :
        IF x * x + 2 * x * Scale > Scale * Scale
        THEN QuarterPi - ArctanPoly(DivAbs(Scale - x, Scale + x))
        ELSE ArctanPoly(x))

\* numpy.arctan(n / d) on numpy floats.  The quotient is not formed, so
\* that it does not overflow where the double's would not: n / 0 is +-inf
\* for n # 0, whose arctan is +-pi/2; 0 / 0 and inf / inf are nan.
arctan_div(n, d) ==
    Let2(n, d, LAMBDA x, y :
        IF IsNaN(x) \/ IsNaN(y) THEN NaN
        ELSE IF IsInf(x) THEN (IF IsInf(y) THEN NaN
                               ELSE IF y < 0 THEN -Sgn(x) * HalfPi
                               ELSE Sgn(x) * HalfPi)
        ELSE IF IsInf(y) THEN 0
        ELSE IF y = 0 THEN (IF x = 0 THEN NaN ELSE Sgn(x) * HalfPi)
        ELSE IF x = 0 THEN 0
        ELSE IF Abs(x) <= Abs(y)
             THEN Sgn(x) * Sgn(y) * ArctanUnit(DivAbs(Abs(x), Abs(y)))
        ELSE Sgn(x) * Sgn(y) * (HalfPi - ArctanUnit(DivAbs(Abs(y), Abs(x)))))

\* numpy.arcsin: arctan(x / sqrt(1 - x^2)) on [-1, 1], nan elsewhere.
arcsin(a) ==
    Let1(a, LAMBDA x :
        IF IsNaN(x) \/ Abs(x) > Scale THEN NaN
        ELSE arctan_div(x, Isqrt(Scale * Scale - x * x)))

\* ------------------------------------------------------------------------
\* Environment parameters (class attributes), in fixed point
\* ------------------------------------------------------------------------

time_step == 100

g == 98200

c == 6600

dCM == 3000

h == 9400

L == 11100

r == 3400

Mc == 150000

Md == 17000

Mp == 600000

\* 10 km/h in m/s
v == RDiv(10 * 1000 * Scale, 3600)

M == Mc + Mp

Idc == Mul(Md, Mul(r, r))

Idv == Mul(Mul((3 * Scale) \div 2, Md), Mul(r, r))

Idl == Mul(Mul(Scale \div 2, Md), Mul(r, r))

Itot == Mul(Mul(Div(13 * Scale, 3 * Scale), Mc), Mul(h, h))
        + Mul(Mp, Mul(h + dCM, h + dCM))

sigmad == Div(v, r)

\* The radius substituted at theta == 0.  The program's 1e8 m is beyond
\* MaxFinite and is held at 1e4 m; at this resolution the quantities the
\* program forms from it under theta == 0 are the same.
BigRadius == 100000000

\* Handlebar limit, 80 degrees.
theta_max == 13963

\* Tolerance of the wheelbase before it is corrected.
wheelbase_tol == 100

\* ------------------------------------------------------------------------
\* step(): the pieces of one tick.  s is the sensor vector on entry (a
\* record with the array's eleven fields in order), a the action (T, d).
\* ------------------------------------------------------------------------

rf(s) == IF Eq(s.theta, 0) THEN BigRadius ELSE Div(L, fabs(sin(s.theta)))

rb(s) == IF Eq(s.theta, 0) THEN BigRadius ELSE Div(L, fabs(tan(s.theta)))

\* sqrt((L - c)**2 + L**2 / tan(theta)**2)
rCM(s) ==
    IF Eq(s.theta, 0) THEN BigRadius
    ELSE Hypot(L - c, Div(L, tan(s.theta)))

\* Faulty variant of phi: the quotient inverted, arctan(h / d).
phi_inverted(s, a) == Add(s.omega, arctan_div(h, a.d))

phi(s, a) == Add(s.omega, arctan_div(a.d, h))

\* Faulty variant of omegadd: the value unpacked from the sensors is kept.
omegadd_stale(s, a) == s.omegadd

\* Second derivative of the tilt.  1 / Itot * (...) is formed as (...) / Itot.
omegadd(s, a) ==
    Let1(phi(s, a), LAMBDA phi_ :
        Div(Sub(Mul(Mul(Mul(M, h), g), sin(phi_)),
                Mul(cos(phi_),
                    Add(Mul(Mul(Idc, sigmad), s.thetad),
                        Mul(sign(s.theta),
                            Mul(Mul(v, v),
                                Add(Mul(Mul(Md, r),
                                        Add(Div(Scale, rf(s)), Div(Scale, rb(s)))),
                                    Div(Mul(M, h), rCM(s)))))))),
            Itot))

thetadd(s, a) == Div(Sub(a.T, Mul(Mul(Idv, sigmad), s.omegad)), Idl)

\* numpy.clip: nan stays nan.
clip(a, lo, hi) ==
    Let1(a, LAMBDA x :
        IF IsNaN(x) THEN NaN ELSE IF x < lo THEN lo ELSE IF x > hi THEN hi ELSE x)

\* Faulty variant of integrate: omega and theta advance with the omegad
\* and thetad of the state on entry.
integrate_previous(s, a) ==
    Let2(omegadd(s, a), thetadd(s, a), LAMBDA omegadd_, thetadd_ :
        [theta   |-> clip(Add(s.theta, Mul(s.thetad, time_step)),
                          -theta_max, theta_max),
         thetad  |-> Add(s.thetad, Mul(thetadd_, time_step)),
         omega   |-> Add(s.omega, Mul(s.omegad, time_step)),
         omegad  |-> Add(s.omegad, Mul(omegadd_, time_step)),
         omegadd |-> omegadd_])

\* Euler's method with time_step, then the handlebar limit: omegad and
\* thetad first, then omega and theta from the new omegad and thetad.
integrate(s, a) ==
    Let2(omegadd(s, a), thetadd(s, a), LAMBDA omegadd_, thetadd_ :
    Let2(Add(s.omegad, Mul(omegadd_, time_step)),
         Add(s.thetad, Mul(thetadd_, time_step)), LAMBDA omegad_, thetad_ :
        [theta   |-> clip(Add(s.theta, Mul(thetad_, time_step)),
                          -theta_max, theta_max),
         thetad  |-> thetad_,
         omega   |-> Add(s.omega, Mul(omegad_, time_step)),
         omegad  |-> omegad_,
         omegadd |-> omegadd_]))

\* sign(angle) * arcsin(temp), or sign(angle) * 0.5 * pi when temp > 1.
swept(temp, angle) ==
    Let1(temp, LAMBDA t :
        IF Gt(t, Scale) THEN Mul(sign(angle), HalfPi)
        ELSE Mul(sign(angle), arcsin(t)))

\* Wheel contact positions: theta is the updated handlebar angle; the
\* radii and psi are those of the state on entry.
wheels(s, theta) ==
    Let2(swept(Div(Mul(v, time_step), Mul(2 * Scale, rf(s))), Add(s.psi, theta)),
         swept(Div(Mul(v, time_step), Mul(2 * Scale, rb(s))), s.psi),
         LAMBDA front_temp, back_temp :
    Let2(Add(Add(s.psi, theta), front_temp), Add(s.psi, back_temp),
         LAMBDA front_dir, back_dir :
        [xf |-> Add(s.xf, Mul(Mul(v, time_step), Neg(sin(front_dir)))),
         yf |-> Add(s.yf, Mul(Mul(v, time_step), cos(front_dir))),
         xb |-> Add(s.xb, Mul(Mul(v, time_step), Neg(sin(back_dir)))),
         yb |-> Add(s.yb, Mul(Mul(v, time_step), cos(back_dir)))]))

current_wheelbase(w) == Hypot(Sub(w.xf, w.xb), Sub(w.yf, w.yb))

\* Preventing numerical drift.
drift(w) ==
    Let1(current_wheelbase(w), LAMBDA cw :
        IF Gt(fabs(Sub(cw, L)), wheelbase_tol)
        THEN Let1(Sub(Div(L, cw), Scale), LAMBDA relative_error :
                [w EXCEPT
                   !.xb = Add(w.xb, Mul(Sub(w.xb, w.xf), relative_error)),
                   !.yb = Add(w.yb, Mul(Sub(w.yb, w.yf), relative_error))])
        ELSE w)

\* Heading, psi.
heading(w) ==
    Let1(Sub(w.yf, w.yb), LAMBDA delta_y :
        IF Eq(w.xf, w.xb) /\ Lt(delta_y, 0) THEN Pi
        ELSE IF Gt(delta_y, 0) THEN arctan_div(Sub(w.xb, w.xf), delta_y)
        ELSE Sub(Mul(sign(Sub(w.xb, w.xf)), HalfPi),
                 arctan_div(delta_y, Sub(w.xb, w.xf))))

\* Angle to goal, psig.
goal_angle(w, psi, xg, yg) ==
    Let2(Sub(w.yf, w.yb), Sub(yg, w.yb), LAMBDA delta_y, delta_yg :
        IF Eq(xg, w.xb) /\ Lt(delta_yg, 0) THEN Sub(psi, Pi)
        ELSE IF Gt(delta_y, 0)
             THEN Sub(psi, arctan_div(Sub(w.xb, xg), delta_yg))
        ELSE Sub(psi, Sub(Mul(sign(Sub(w.xb, xg)), HalfPi),
                          arctan_div(delta_yg, Sub(w.xb, xg)))))

\* What step() computes: the sensor vector it installs.
step_sensors(s, a, xg, yg) ==
    Let1(integrate(s, a), LAMBDA e :
    Let1(drift(wheels(s, e.theta)), LAMBDA w :
    Let1(heading(w), LAMBDA psi :
        [theta |-> e.theta, thetad |-> e.thetad,
         omega |-> e.omega, omegad |-> e.omegad, omegadd |-> e.omegadd,
         xf |-> w.xf, yf |-> w.yf, xb |-> w.xb, yb |-> w.yb,
         psi |-> psi, psig |-> goal_angle(w, psi, xg, yg)])))

\* ------------------------------------------------------------------------
\* reset(): the sensor vector it installs
\* ------------------------------------------------------------------------

\* n_theta and n_omega are the two numpy.random.normal(0, 1) draws and u the
\* numpy.random.rand(1) draw; they are read in randomized mode only.
\* Faulty variant of reset_sensors: the deterministic front contact is put
\* at (L, 0) instead of (0, L).
reset_sensors_sideways(random, n_theta, n_omega, u, xg, yg) ==
    Let1(IF random THEN 0 + (Mul(u, L) - Mul(Scale \div 2, L)) ELSE L, LAMBDA xf :
    Let1(IF random THEN Isqrt(L * L - (xf - 0) * (xf - 0)) + 0 ELSE 0, LAMBDA yf :
    Let1(arctan_div(0 - xf, yf - 0), LAMBDA psi :
        [theta   |-> IF random THEN Mul(n_theta, RDiv(Pi, 180)) ELSE 0,
         thetad  |-> 0,
         omega   |-> IF random THEN Mul(n_omega, RDiv(Pi, 180)) ELSE 0,
         omegad  |-> 0,
         omegadd |-> 0,
         xf |-> xf, yf |-> yf, xb |-> 0, yb |-> 0,
         psi  |-> psi,
         psig |-> Sub(psi, arctan_div(0 - xg, yg - 0))])))

\* xb and yb are 0 in both modes.
reset_sensors(random, n_theta, n_omega, u, xg, yg) ==
    Let1(IF random THEN 0 + (Mul(u, L) - Mul(Scale \div 2, L)) ELSE 0, LAMBDA xf :
    Let1(IF random THEN Isqrt(L * L - (xf - 0) * (xf - 0)) + 0 ELSE L, LAMBDA yf :
    Let1(arctan_div(0 - xf, yf - 0), LAMBDA psi :
        [theta   |-> IF random THEN Mul(n_theta, RDiv(Pi, 180)) ELSE 0,
         thetad  |-> 0,
         omega   |-> IF random THEN Mul(n_omega, RDiv(Pi, 180)) ELSE 0,
         omegad  |-> 0,
         omegadd |-> 0,
         xf |-> xf, yf |-> yf, xb |-> 0, yb |-> 0,
         psi  |-> psi,
         psig |-> Sub(psi, arctan_div(0 - xg, yg - 0))])))

\* (xb - x_goal) / (y_goal - yb) divides Python numbers (xb and yb are the
\* literals 0), so a zero divisor raises ZeroDivisionError.
reset_raises(yg) == yg - 0 = 0

\* Faulty variant of record: the flag is not consulted.
record_always(hist, x, enabled) == Append(hist, x)

\* Recordkeeping in step(): one list's append.
record(hist, x, enabled) == IF enabled THEN Append(hist, x) ELSE hist

\* ------------------------------------------------------------------------
\* Bounds of the exploration
\* ------------------------------------------------------------------------

\* step() calls per Environment.
MaxSteps == 2

\* reset() calls per Environment after its construction.
MaxResets == 1

\* A torque, in N m, that drives the handlebar past its limit within one
\* tick.
BigTorque == 2000

\* A torque, in N m, standing for a finite one whose quotient by Idl leaves
\* the range of a double (above about 1.7e307 N m): in the range of the
\* model, this one's does.
HugeTorque == 20000

\* Actions (T, d) offered to performAction: none, Randlov's 2 N m with a
\* lean of 2 cm, the big torque with the opposite lean, and the huge torque
\* either way.
ActionSet == {[T |-> 0, d |-> 0],
              [T |-> 2 * Scale, d |-> (2 * Scale) \div 100],
              [T |-> BigTorque * Scale, d |-> -(2 * Scale) \div 100],
              [T |-> -HugeTorque * Scale, d |-> 0],
              [T |-> HugeTorque * Scale, d |-> 0]}

\* Goal positions offered to the constructor: the origin, the point the rear
\* wheel reaches after one upright tick, and a point behind and to the side.
GoalSet == {<<0, 0>>, <<0, Mul(v, time_step)>>, <<5 * Scale, -3 * Scale>>}

\* Outcomes offered to the three random draws of a randomized reset, in
\* call order: normal (theta), normal (omega), uniform on [0, 1) (xf).
DrawSet == {<<-Scale, Scale, 0>>, <<Scale, -Scale, Scale - 1>>}

\* ------------------------------------------------------------------------
\* State
\* ------------------------------------------------------------------------

VARIABLES
    pc,                 \* "new" before __init__, "ready" once constructed,
                        \* "raised" when __init__ ended in an exception
    randomInitState, x_goal, y_goal,
    sensors, actions,
    save_wheel_contact_trajectories,
    xfhist, yfhist, xbhist, ybhist,
    last_xf, last_yf, last_omega, last_psig,
    \* history variables, not fields of the program:
    nsteps, nresets,    \* step() and reset() calls so far
    since_reset,        \* step() calls since the last reset()
    recorded,           \* step() calls with recording on since the last reset()
    zero_run            \* every action since the last reset() was (0, 0)

vars == <<pc, randomInitState, x_goal, y_goal, sensors, actions,
          save_wheel_contact_trajectories, xfhist, yfhist, xbhist, ybhist,
          last_xf, last_yf, last_omega, last_psig,
          nsteps, nresets, since_reset, recorded, zero_run>>

config == <<randomInitState, x_goal, y_goal>>

hists == <<xfhist, yfhist, xbhist, ybhist>>

lasts == <<last_xf, last_yf, last_omega, last_psig>>

\* Before __init__ runs only the class attributes exist.
Init ==
    /\ pc = "new"
    /\ randomInitState \in BOOLEAN
    /\ \E goal \in GoalSet : x_goal = goal[1] /\ y_goal = goal[2]
    /\ sensors = << >>
    /\ actions = << >>
    /\ save_wheel_contact_trajectories = FALSE
    /\ xfhist = << >> /\ yfhist = << >> /\ xbhist = << >> /\ ybhist = << >>
    /\ last_xf = 0 /\ last_yf = 0 /\ last_omega = 0 /\ last_psig = 0
    /\ nsteps = 0 /\ nresets = 0 /\ since_reset = 0 /\ recorded = 0
    /\ zero_run = FALSE

\* The body of reset() when it returns.
reset_body ==
    /\ \E draw \in DrawSet :
           sensors' = reset_sensors(randomInitState, draw[1], draw[2], draw[3],
                                    x_goal, y_goal)
    /\ xfhist' = << >> /\ yfhist' = << >> /\ xbhist' = << >> /\ ybhist' = << >>
    /\ since_reset' = 0
    /\ recorded' = 0
    /\ zero_run' = TRUE

\* __init__(randomInitState, x_goal, y_goal)
Construct ==
    /\ pc = "new"
    /\ IF reset_raises(y_goal)
       THEN /\ pc' = "raised"
            /\ UNCHANGED <<sensors, actions, save_wheel_contact_trajectories,
                           hists, since_reset, recorded, zero_run>>
       ELSE /\ pc' = "ready"
            /\ reset_body
            /\ actions' = [T |-> 0, d |-> 0]
            /\ save_wheel_contact_trajectories' = FALSE
    /\ UNCHANGED <<config, lasts, nsteps, nresets>>

\* reset() on a constructed Environment
Reset ==
    /\ pc = "ready"
    /\ nresets < MaxResets
    /\ nresets' = nresets + 1
    /\ IF reset_raises(y_goal)
       THEN /\ pc' = "raised"
            /\ UNCHANGED <<sensors, hists, since_reset, recorded, zero_run>>
       ELSE /\ pc' = "ready"
            /\ reset_body
    /\ UNCHANGED <<config, actions, save_wheel_contact_trajectories, lasts,
                   nsteps>>

\* saveWheelContactTrajectories(opt)
SaveWheelContactTrajectories ==
    /\ pc = "ready"
    /\ \E opt \in BOOLEAN :
           /\ opt # save_wheel_contact_trajectories
           /\ save_wheel_contact_trajectories' = opt
    /\ UNCHANGED <<pc, config, sensors, actions, hists, lasts, nsteps, nresets,
                   since_reset, recorded, zero_run>>

\* The body of step() with self.actions = a.
step_body(a) ==
    /\ last_xf' = sensors.xf
    /\ last_yf' = sensors.yf
    /\ last_omega' = sensors.omega
    /\ last_psig' = sensors.psig
    /\ xfhist' = record(xfhist, sensors.xf, save_wheel_contact_trajectories)
    /\ yfhist' = record(yfhist, sensors.yf, save_wheel_contact_trajectories)
    /\ xbhist' = record(xbhist, sensors.xb, save_wheel_contact_trajectories)
    /\ ybhist' = record(ybhist, sensors.yb, save_wheel_contact_trajectories)
    /\ sensors' = step_sensors(sensors, a, x_goal, y_goal)
    /\ nsteps' = nsteps + 1
    /\ since_reset' = since_reset + 1
    /\ recorded' = IF save_wheel_contact_trajectories THEN recorded + 1
                   ELSE recorded
    /\ zero_run' = (zero_run /\ a.T = 0 /\ a.d = 0)
    /\ UNCHANGED <<pc, config, save_wheel_contact_trajectories, nresets>>

\* performAction(actions)
PerformAction ==
    /\ pc = "ready"
    /\ nsteps < MaxSteps
    /\ \E a \in ActionSet :
           /\ actions' = a
           /\ step_body(a)

\* step() called directly: the stored action is applied again
Step ==
    /\ pc = "ready"
    /\ nsteps < MaxSteps
    /\ actions' = actions
    /\ step_body(actions)

Next ==
    \/ Construct
    \/ Reset
    \/ SaveWheelContactTrajectories
    \/ PerformAction
    \/ Step

Spec == Init /\ [][Next]_vars

\* ------------------------------------------------------------------------
\* Properties
\* ------------------------------------------------------------------------

Ready == pc = "ready"

\* A step() has run since the last reset().
Stepped == Ready /\ since_reset > 0

SensorFields == {"theta", "thetad", "omega", "omegad", "omegadd",
                 "xf", "yf", "xb", "yb", "psi", "psig"}

\* C1: in every state of a constructed Environment, whatever finite
\* actions led to it, the stored handlebar angle satisfies
\* -1.3963 <= theta <= 1.3963.
ThetaWithinLimit ==
    Ready => /\ ~IsNaN(sensors.theta)
             /\ -theta_max <= sensors.theta
             /\ sensors.theta <= theta_max

\* C2: no call raises: __init__/reset() and step() complete and install a
\* sensor vector for every goal position, the singular ones included.
NoCallRaises == pc # "raised"

\* C3: from every state whose theta lies in [-1.3963, 1.3963], step()
\* produces a sensor vector in which no field is nan or non-finite.
StepLeavesNoNaN ==
    [][(/\ nsteps' = nsteps + 1
        /\ Lt(-theta_max - 1, sensors.theta)
        /\ Lt(sensors.theta, theta_max + 1))
       => \A f \in SensorFields : IsFinite(sensors'[f])]_vars

\* C4: after every step() the distance between the stored front and rear
\* contacts differs from L by at most 0.01.
WheelbaseKept ==
    Stepped => Lt(fabs(Sub(current_wheelbase(sensors), L)), wheelbase_tol + 1)

\* C5: with randomization disabled, the sensor vector read right after a
\* reset() is the upright start, whatever preceded the reset.
DeterministicResetVector ==
    (Ready /\ ~randomInitState /\ since_reset = 0) =>
        /\ sensors.theta = 0 /\ sensors.thetad = 0
        /\ sensors.omega = 0 /\ sensors.omegad = 0 /\ sensors.omegadd = 0
        /\ sensors.xf = 0 /\ sensors.yf = L
        /\ sensors.xb = 0 /\ sensors.yb = 0
        /\ sensors.psi = 0

\* A deterministic reset() that followed steps which had moved the bicycle.
ResetAfterSteps ==
    /\ Ready /\ ~randomInitState
    /\ since_reset = 0 /\ nresets > 0 /\ nsteps > 1
    /\ last_yf > L

\* C6: from the deterministic reset state, under action (0, 0) on every
\* tick, theta, thetad, omega, omegad and omegadd are 0 after every step.
UprightIsFixedPoint ==
    (Ready /\ ~randomInitState /\ zero_run) =>
        /\ sensors.theta = 0 /\ sensors.thetad = 0
        /\ sensors.omega = 0 /\ sensors.omegad = 0 /\ sensors.omegadd = 0

\* Two or more zero-action ticks have run from the deterministic reset.
UprightRun == Ready /\ ~randomInitState /\ zero_run /\ since_reset >= 2

\* C7: step() does not read the incoming omegadd: every step taken installs
\* the sensor vector it would have installed, under the same action, from
\* the state that differs in sensors[4] alone (0 in place of a non-zero
\* omegadd, 1 in place of 0).
IncomingOmegaddIgnored ==
    [][nsteps' = nsteps + 1 =>
        sensors' = step_sensors(
                       [sensors EXCEPT
                          !.omegadd = IF sensors.omegadd = 0 THEN Scale ELSE 0],
                       actions', x_goal, y_goal)]_vars

\* A step has run from a state whose omegadd an earlier step had computed,
\* with the tilt under way.
OmegaddNonZero ==
    /\ Stepped /\ since_reset > 1
    /\ last_omega # 0
    /\ sensors.omegadd # 0 /\ IsFinite(sensors.omegadd)

\* C8: each of the four histories is as long as the number of step() calls
\* made with recording enabled since the last reset().
HistoriesCountRecordedSteps ==
    /\ Len(xfhist) = recorded
    /\ Len(yfhist) = recorded
    /\ Len(xbhist) = recorded
    /\ Len(ybhist) = recorded

\* After a reset(), some steps were recorded and some were not.
PartlyRecorded ==
    /\ Ready /\ nresets > 0
    /\ recorded > 0 /\ recorded < since_reset

goal_bearing(xb, yb, xg, yg) ==
    Let1(Sub(yg, yb), LAMBDA delta_yg :
        IF Eq(xg, xb) /\ Lt(delta_yg, 0) THEN Pi
        ELSE IF Gt(delta_yg, 0) THEN arctan_div(Sub(xb, xg), delta_yg)
        ELSE Sub(Mul(sign(Sub(xb, xg)), HalfPi),
                 arctan_div(delta_yg, Sub(xb, xg))))

\* C10: after step(), psig is psi minus the bearing of the goal, the
\* bearing's formula being selected by the goal offsets.
PsigByGoalOffsets ==
    Stepped =>
        sensors.psig
          = Sub(sensors.psi,
                goal_bearing(sensors.xb, sensors.yb, x_goal, y_goal))
====
